---- MODULE Spec2Model ----
(***************************************************************************)
(* Backup lifecycle and job scheduler of the MongoDB dashboard backend.    *)
(*                                                                         *)
(*   go-backend/internal/backup/service.go   Service, Scheduler            *)
(*   internal/sqlite/backup_repo.go          BackupRepository              *)
(*   internal/backup/executor.go             Executor                      *)
(*   go-backend/cmd/api/main.go              run (start / stop order)      *)
(*                                                                         *)
(* Time is counted in days.  Every repository call and every executor call *)
(* has a nondeterministic outcome (the database or the external tool may   *)
(* fail); with a cancelled context the outcome is always a failure.        *)
(***************************************************************************)
EXTENDS Integers, Sequences, FiniteSets, TLC

(* ------------------------------ bounds -------------------------------- *)

\* number of backup attempts (createBackup calls) explored
MaxBackups == 2
\* Service.retentionDays, the configured backup.retention_days, in days
RetentionDays == 1
\* the clock runs until a record of day 0 is older than the retention window
\* (derived from RetentionDays)
MaxTime == RetentionDays + 1
\* number of triggers AddJob installs
MaxAdds == 2
\* limit of the sweep's ListRecent call (1000 in the source, scaled down so
\* that a store larger than the limit is reachable)
SweepListLimit == 1

\* number of viewer connections accepted
MaxViewers == 2
\* number of Broadcast calls
MaxMsgs == 2
\* capacity of a viewer's outbound queue and of the hub's broadcast queue
\* (256 each in the source, scaled down so that a full queue is reachable)
SendCap == 1
BroadcastCap == 1

Ids == 1..MaxBackups
DBs == {"orders"}
Sizes == {4096}
Triggers == {"manual", "scheduled"}

NoPath == <<>>
NoTime == -1
NoRec == [status |-> "none"]
NoRet == [kind |-> "none", msg |-> "", rec |-> NoRec]

VARIABLES
    store,      \* backups table: id -> row, or NoRec
    files,      \* artifact paths that exist in the output directory
    now,        \* time.Now(), in days
    nextId,     \* the next fresh uuid
    call,       \* createBackup invocations, by the id they generated
    sweep,      \* cleanupOldBackups goroutines, by the call that spawned them
    last,       \* what the last step returned to its caller: the service
                \* call or the sweep that ended in that step, if one did
    cron,       \* the cron engine: running, its entries, its next entry id
    jobs,       \* Scheduler.jobs: name -> entry id (NoEntry: not in the map)
    mu,         \* Scheduler.mu: the AddJob caller that holds it, or NoProc
    adder,      \* AddJob calls in progress, by caller
    running,    \* job invocations that have started and not returned
    life,       \* Start / Stop / completion handle / process alive
    clients,    \* Hub.clients: the active set
    sendq,      \* Client.send of every viewer: the messages buffered in it
    closed,     \* Client.send has been closed
    view,       \* every viewer's ServeHTTP / ReadPump / WritePump position
    bq,         \* Hub.broadcast: the messages buffered in it
    hub,        \* Hub.Run is in its loop
    prod,       \* MetricsBroadcaster.run: its position
    nextMsg,    \* number of Broadcast calls made so far
    sig,        \* the context of run() is cancelled (SIGINT / SIGTERM)
    skipped,    \* the last step was a producer tick that did no work
    main        \* run(): its position, the readiness flag, the listener,
                \* the shutdown context and the store connections

backupVars == <<store, files, now, nextId, call, sweep, last>>

schedVars == <<cron, jobs, mu, adder, running, life>>

hubVars == <<clients, sendq, closed, view, bq, hub, prod, nextMsg, sig, skipped>>

vars == <<store, files, now, nextId, call, sweep, last,
          cron, jobs, mu, adder, running, life,
          clients, sendq, closed, view, bq, hub, prod, nextMsg, sig, skipped,
          main>>

(* ------------------------- sqlite.BackupRepository -------------------- *)

\* a context that is already cancelled makes ExecContext / CommandContext fail
Outcomes(cancelled) == IF cancelled THEN {FALSE} ELSE BOOLEAN

\* the row written by Create: INSERT of id, database_name, file_path,
\* size_bytes, started_at, status, triggered_by
NewRow(b) ==
    [db |-> b.db, path |-> b.path, size |-> b.size, startedAt |-> b.startedAt,
     completedAt |-> FALSE, status |-> b.status, err |-> "", trig |-> b.trig]

Create(st, id, b) == [st EXCEPT ![id] = NewRow(b)]

\* the table after an INSERT that returned an error: no row was added
CreateFailedLeavesRow(st, id, b) == Create(st, id, b)

CreateFailed(st, id, b) == st

\* UPDATE backups SET status, size_bytes, completed_at, error_message
\* WHERE id = ?   (no row matches a deleted id; file_path is not in the SET
\* list, so the path passed by the service is not written)
UpdateStatusAllRows(st, id, status, filePath, sizeBytes, errorMsg, t) ==
    [i \in Ids |->
        IF st[i] = NoRec THEN NoRec
        ELSE [st[i] EXCEPT !.status = status, !.size = sizeBytes,
                           !.completedAt = TRUE, !.err = errorMsg]]

UpdateStatus(st, id, status, filePath, sizeBytes, errorMsg, t) ==
    IF st[id] = NoRec THEN st
    ELSE [st EXCEPT ![id] = [@ EXCEPT !.status = status, !.size = sizeBytes,
                                      !.completedAt = TRUE, !.err = errorMsg]]

\* GetByID: the row, or nil (NoRec) on sql.ErrNoRows
GetByID(st, id) == st[id]

\* DELETE FROM backups WHERE id = ?
DeleteKeepsRow(st, id) == st

Delete(st, id) == [st EXCEPT ![id] = NoRec]

Present(st) == {i \in Ids : st[i] # NoRec}

Min(a, b) == IF a < b THEN a ELSE b

\* ListRecent: ORDER BY started_at DESC LIMIT limit.  Every result the query
\* can produce: rows of equal started_at come in any order.
ListRecent(st, limit) ==
    LET P == Present(st)
        k == Min(limit, Cardinality(P))
    IN  {s \in [1..k -> P] :
            /\ \A i, j \in 1..k : i < j =>
                  /\ s[i] # s[j]
                  /\ st[s[i]].startedAt >= st[s[j]].startedAt
            /\ \A i \in 1..k : \A p \in P \ {s[j] : j \in 1..k} :
                  st[s[i]].startedAt >= st[p].startedAt}

(* ------------------------------ Executor ------------------------------ *)

\* outputDir/{db}_{timestamp}.gz
OutputPath(db, t) == <<db, t>>

ExecErrors == {"mongodump failed"}

\* the error of os.Remove(path): nil when the file was removed, ENOENT when
\* no file is at the path (the empty path included), another errno when the
\* file is there and cannot be removed
OsRemoveErr(fs, path, removed) ==
    IF path \notin fs THEN "ENOENT" ELSE IF removed THEN "" ELSE "EACCES"

\* os.IsNotExist(err)
NeverNotExist(err) == FALSE

IsNotExist(err) == err = "ENOENT"

\* the error DeleteFile returns: err != nil && !os.IsNotExist(err)
DeleteFileErr(fs, path, removed) ==
    LET err == OsRemoveErr(fs, path, removed)
    IN  IF err # "" /\ ~IsNotExist(err) THEN "delete backup file" ELSE ""

\* the arguments Restore gives mongorestore after --uri: the database, the
\* archive path, --gzip and --drop (the target collections are dropped
\* before they are restored)
RestoreArgs(backupPath, dbName) ==
    <<"--db", dbName, "--archive=", backupPath, "--gzip", "--drop">>

\* os.Remove; a missing file (os.IsNotExist) is not an error
DeleteFile(fs, path, removed) ==
    IF path \in fs /\ removed THEN fs \ {path} ELSE fs

\* os.Remove of a file that exists removes it or fails; of a missing file it
\* changes nothing
RemoveOutcomes(fs, path) == IF path \in fs THEN BOOLEAN ELSE {FALSE}

(* ------------------------------ Service ------------------------------- *)

NoErr == ""

\* a createBackup invocation: its locals while it runs
IdleCall ==
    [pc |-> "idle", db |-> "", trig |-> "", startedAt |-> NoTime]

DoneCall == [IdleCall EXCEPT !.pc = "done"]

NoSweep == [pc |-> "none", todo |-> <<>>, cutoff |-> NoTime, listed |-> {}, delFailed |-> {}]

NoLast ==
    [op |-> "none", id |-> 0, created |-> FALSE, exec |-> "none", write |-> "none",
     path |-> NoPath, size |-> 0, found |-> NoRec, invoked |-> FALSE, ret |-> NoRet,
     listOk |-> FALSE, cutoff |-> NoTime, listed |-> {}, delFailed |-> {},
     removed |-> FALSE, fileErr |-> "", again |-> FALSE, args |-> <<>>]

\* `last` records the returns of the kinds of call in obs
Observe(obs, l) == IF l.op \in obs THEN l ELSE NoLast

\* a sweep that ended
SweepEnd(s, listOk, cutoff, listed, delFailed) ==
    [NoLast EXCEPT !.op = "sweep", !.id = s, !.listOk = listOk, !.cutoff = cutoff,
                   !.listed = listed, !.delFailed = delFailed]

\* the *sqlite.Backup built at the top of createBackup
NewBackup(db, trig, t) ==
    [db |-> db, path |-> NoPath, size |-> 0, startedAt |-> t,
     status |-> "running", trig |-> trig]

OkRet == [kind |-> "ok", msg |-> "", rec |-> NoRec]

ErrorRet(msg) == [kind |-> "error", msg |-> msg, rec |-> NoRec]

RecordRet(b) == [kind |-> "record", msg |-> "", rec |-> b]

\* what createBackup returns after the executor failed
ExecFailReturnsRecord(c) ==
    RecordRet([NewBackup(c.db, c.trig, c.startedAt) EXCEPT !.status = "failed"])

ExecFailReturn(c) == ErrorRet("execute backup")

\* go s.cleanupOldBackups(): the goroutine exists and has not run yet
SweepRunInline == [NoSweep EXCEPT !.pc = "done"]

GoSweep == [NoSweep EXCEPT !.pc = "spawned"]

\* the sweeps after createBackup returned the error of the status write:
\* the return comes before the go statement
SweepStartedAnyway(sw, id) == [sw EXCEPT ![id] = GoSweep]

NoSweepStarted(sw, id) == sw

\* what createBackup returns after the completed status was written:
\* the in-memory backup with FilePath, SizeBytes and Status assigned
CompletedReturn(c, p, sz) ==
    RecordRet([NewBackup(c.db, c.trig, c.startedAt) EXCEPT
                  !.path = p, !.size = sz, !.status = "completed"])

\* b.StartedAt.Before(cutoff)
BeforeOrEqual(t, cutoff) == t <= cutoff

Before(t, cutoff) == t < cutoff

\* time.Now().AddDate(0, 0, -s.retentionDays)
Cutoff(t) == t - RetentionDays

BackupInit ==
    /\ store = [i \in Ids |-> NoRec]
    /\ files = {}
    /\ now = 0
    /\ nextId = 1
    /\ call = [i \in Ids |-> IdleCall]
    /\ sweep = [i \in Ids |-> NoSweep]
    /\ last = NoLast

\* the clock advances
Tick ==
    /\ now < MaxTime
    /\ now' = now + 1
    /\ last' = NoLast
    /\ UNCHANGED <<store, files, nextId, call, sweep>>

\* where the caller's context is cancelled during a createBackup call: the
\* request context of a manual trigger at any point, context.Background() of
\* a scheduled one never
CancelPoints(trig) ==
    IF trig = "manual" THEN {"never", "before create", "before execute", "before write"}
    ELSE {"never"}

\* TriggerBackup (trig = "manual") or runBackup (trig = "scheduled"):
\* createBackup up to the return of repo.Create
BeginBackup(db, trig, cancelled, obs) ==
    /\ nextId <= MaxBackups
    /\ cancelled => "before create" \in CancelPoints(trig)
    /\ nextId' = nextId + 1
    /\ \E ok \in Outcomes(cancelled) :
          LET id == nextId
              b == NewBackup(db, trig, now)
          IN  IF ok
              THEN /\ store' = Create(store, id, b)
                   /\ call' = [call EXCEPT ![id] =
                                  [pc |-> "exec", db |-> db, trig |-> trig,
                                   startedAt |-> now]]
                   /\ last' = NoLast
              ELSE /\ store' = CreateFailed(store, id, b)
                   /\ call' = [call EXCEPT ![id] = DoneCall]
                   /\ last' = Observe(obs, [NoLast EXCEPT !.op = "trigger", !.id = id,
                                             !.ret = ErrorRet("create backup record")])
    /\ UNCHANGED <<files, now, sweep>>

\* the err != nil branch after s.executor.Execute failed (always, when the
\* context was cancelled before or while mongodump ran):
\* UpdateStatus(failed) with its error dropped, then the return
FinishFailed(id, e, cancelled, obs) ==
    /\ call[id].pc = "exec"
    /\ cancelled => "before execute" \in CancelPoints(call[id].trig)
    /\ \E w \in Outcomes(cancelled) :
          /\ store' = IF w
                      THEN UpdateStatus(store, id, "failed", NoPath, 0, e, now)
                      ELSE store
          /\ last' = Observe(obs, [NoLast EXCEPT !.op = "trigger", !.id = id, !.created = TRUE,
                                    !.exec = "fail",
                                    !.write = IF w THEN "ok" ELSE "fail",
                                    !.ret = ExecFailReturn(call[id])])
    /\ call' = [call EXCEPT ![id] = DoneCall]
    /\ UNCHANGED <<files, now, nextId, sweep>>

\* the success branch after s.executor.Execute wrote the archive (the context
\* was live until mongodump exited; it may be cancelled before the status
\* write): UpdateStatus(completed); on its failure return the error, otherwise
\* start the sweep goroutine and return the backup
FinishCompleted(id, sz, cancelled, obs) ==
    /\ call[id].pc = "exec"
    /\ cancelled => "before write" \in CancelPoints(call[id].trig)
    /\ LET p == OutputPath(call[id].db, now)
           l == [NoLast EXCEPT !.op = "trigger", !.id = id, !.created = TRUE,
                               !.exec = "ok", !.path = p, !.size = sz]
       IN  /\ files' = files \cup {p}
           /\ \E w \in Outcomes(cancelled) :
                 IF w
                 THEN /\ store' = UpdateStatus(store, id, "completed", p, sz, NoErr, now)
                      /\ last' = Observe(obs, [l EXCEPT !.write = "ok",
                                           !.ret = CompletedReturn(call[id], p, sz)])
                      /\ sweep' = [sweep EXCEPT ![id] = GoSweep]
                 ELSE /\ store' = store
                      /\ last' = Observe(obs, [l EXCEPT !.write = "fail",
                                           !.ret = ErrorRet("update backup status")])
                      /\ sweep' = NoSweepStarted(sweep, id)
    /\ call' = [call EXCEPT ![id] = DoneCall]
    /\ UNCHANGED <<now, nextId>>

Snapshot(st, i) == [id |-> i, path |-> st[i].path, startedAt |-> st[i].startedAt]

\* cleanupOldBackups: ListRecent(ctx, 1000), then the cutoff; the loop does
\* nothing on the records that are not before the cutoff
SweepListUpTo(s, obs, limit) ==
    /\ sweep[s].pc = "spawned"
    /\ \E ok \in BOOLEAN :
          IF ok
          THEN \E l \in ListRecent(store, limit) :
                  LET cutoff == Cutoff(now)
                      all == [i \in 1..Len(l) |-> Snapshot(store, l[i])]
                      old == SelectSeq(all, LAMBDA b : Before(b.startedAt, cutoff))
                      sw == [pc |-> "loop", todo |-> old, cutoff |-> cutoff,
                             listed |-> {l[i] : i \in 1..Len(l)}, delFailed |-> {}]
                  IN  IF old = <<>>
                      THEN /\ sweep' = [sweep EXCEPT ![s] = [NoSweep EXCEPT !.pc = "done"]]
                           /\ last' = Observe(obs, SweepEnd(s, TRUE, cutoff, sw.listed, {}))
                      ELSE /\ sweep' = [sweep EXCEPT ![s] = sw]
                           /\ last' = NoLast
          ELSE /\ sweep' = [sweep EXCEPT ![s] = [NoSweep EXCEPT !.pc = "done"]]
               /\ last' = Observe(obs, SweepEnd(s, FALSE, NoTime, {}, {}))
    /\ UNCHANGED <<store, files, now, nextId, call>>

SweepList(s, obs) == SweepListUpTo(s, obs, SweepListLimit)

\* the records the loop still goes through after one iteration: both errors
\* are logged and the range loop goes on
StopOnFailure(todo, fileErr, delOk) ==
    IF delOk /\ fileErr = NoErr THEN Tail(todo) ELSE <<>>

Remaining(todo, fileErr, delOk) == Tail(todo)

\* one iteration of the loop on a record older than the cutoff: DeleteFile
\* and repo.Delete, each failure logged and the loop continued
SweepItem(s, obs) ==
    /\ sweep[s].pc = "loop"
    /\ LET b == Head(sweep[s].todo)
       IN  \E removed \in RemoveOutcomes(files, b.path), delOk \in BOOLEAN :
              LET failed == IF delOk THEN sweep[s].delFailed
                            ELSE sweep[s].delFailed \cup {b.id}
                  rest == Remaining(sweep[s].todo,
                                    DeleteFileErr(files, b.path, removed), delOk)
              IN  /\ files' = DeleteFile(files, b.path, removed)
                  /\ store' = IF delOk THEN Delete(store, b.id) ELSE store
                  /\ IF rest = <<>>
                     THEN /\ sweep' = [sweep EXCEPT ![s] = [NoSweep EXCEPT !.pc = "done"]]
                          /\ last' = Observe(obs, SweepEnd(s, TRUE, sweep[s].cutoff,
                                            sweep[s].listed, failed))
                     ELSE /\ sweep' = [sweep EXCEPT ![s] =
                                          [@ EXCEPT !.todo = rest, !.delFailed = failed]]
                          /\ last' = NoLast
    /\ UNCHANGED <<now, nextId, call>>

\* DeleteBackup(ctx, id)
DeleteBackup(id, obs) ==
    /\ LET b == GetByID(store, id)
           l == [NoLast EXCEPT !.op = "delete", !.id = id, !.found = b]
       IN  \/ /\ last' = Observe(obs, [l EXCEPT !.found = NoRec,
                                                 !.ret = ErrorRet("get backup")])
              /\ UNCHANGED <<store, files>>
           \/ /\ b = NoRec
              /\ last' = Observe(obs, [l EXCEPT !.ret = ErrorRet("backup not found")])
              /\ UNCHANGED <<store, files>>
           \/ /\ b # NoRec
              /\ \E removed \in RemoveOutcomes(files, b.path), delOk \in BOOLEAN :
                    /\ files' = DeleteFile(files, b.path, removed)
                    /\ store' = IF delOk THEN Delete(store, id) ELSE store
                    /\ last' = Observe(obs, [l EXCEPT
                                  !.path = b.path, !.removed = removed,
                                  !.fileErr = DeleteFileErr(files, b.path, removed),
                                  !.ret = IF delOk THEN OkRet
                                          ELSE ErrorRet("delete backup record")])
    /\ UNCHANGED <<now, nextId, call, sweep>>

\* the test RestoreBackup makes on the record it read: backup != nil
FoundCompleted(b) == b # NoRec /\ b.status = "completed"

Found(b) == b # NoRec

\* RestoreBackup(ctx, backupID): the record is read, never written
RestoreBackupMarksRecord(id, obs) ==
    /\ LET b == GetByID(store, id)
           l == [NoLast EXCEPT !.op = "restore", !.id = id, !.found = b]
       IN  \/ /\ last' = Observe(obs, [l EXCEPT !.found = NoRec,
                                                 !.ret = ErrorRet("get backup")])
              /\ store' = store
           \/ /\ b = NoRec
              /\ last' = Observe(obs, [l EXCEPT !.ret = ErrorRet("backup not found")])
              /\ store' = store
           \/ /\ b # NoRec
              /\ \E runOk \in BOOLEAN :
                    /\ last' = Observe(obs, [l EXCEPT !.invoked = TRUE, !.path = b.path,
                                  !.ret = IF runOk THEN OkRet ELSE ErrorRet("restore backup")])
                    /\ store' = IF runOk THEN store
                                ELSE [store EXCEPT ![id] = [@ EXCEPT !.status = "failed"]]
    /\ UNCHANGED <<files, now, nextId, call, sweep>>

RestoreBackup(id, obs) ==
    /\ LET b == GetByID(store, id)
           l == [NoLast EXCEPT !.op = "restore", !.id = id, !.found = b]
       IN  \/ last' = Observe(obs, [l EXCEPT !.found = NoRec,
                                              !.ret = ErrorRet("get backup")])
           \/ /\ ~Found(b)
              /\ last' = Observe(obs, [l EXCEPT !.ret = ErrorRet("backup not found")])
           \/ /\ Found(b)
              /\ \E runOk \in BOOLEAN :
                    last' = Observe(obs, [l EXCEPT !.invoked = TRUE, !.path = b.path,
                                  !.args = RestoreArgs(b.path, b.db),
                                  !.ret = IF runOk THEN OkRet ELSE ErrorRet("restore backup")])
    /\ UNCHANGED <<store, files, now, nextId, call, sweep>>

AllOps == {"trigger", "sweep", "delete", "restore"}

\* the database names Execute is called with
ArchiveDBs == {"orders", "users"}

\* the calls whose returns the management specification records
ManageOps == {"delete", "restore"}

\* the Service as the backup management endpoints drive it: backups are
\* triggered, restored and deleted (the clock and the sweeps stand still)
ManageNext ==
    \/ \E db \in DBs, cancelled \in BOOLEAN :
          BeginBackup(db, "manual", cancelled, ManageOps)
    \/ \E id \in Ids, e \in ExecErrors, cancelled \in BOOLEAN :
          FinishFailed(id, e, cancelled, ManageOps)
    \/ \E id \in Ids, sz \in Sizes, cancelled \in BOOLEAN :
          FinishCompleted(id, sz, cancelled, ManageOps)
    \/ \E id \in Ids : DeleteBackup(id, ManageOps)
    \/ \E id \in Ids : RestoreBackup(id, ManageOps)

\* the paths DeleteFile is called with: the file_path of a record, empty or
\* one that Execute produced
Paths == {NoPath} \cup {OutputPath(db, t) : db \in ArchiveDBs, t \in 0..MaxTime}

\* Executor.Execute succeeds: mongodump has written the archive
WriteArchive(db) ==
    /\ files' = files \cup {OutputPath(db, now)}
    /\ last' = NoLast
    /\ UNCHANGED <<store, now, nextId, call, sweep>>

\* Executor.DeleteFile(path)
DeleteFileCall(path) ==
    /\ \E removed \in RemoveOutcomes(files, path) :
          /\ files' = DeleteFile(files, path, removed)
          /\ last' = [NoLast EXCEPT !.op = "deletefile", !.path = path,
                                    !.removed = removed,
                                    !.fileErr = DeleteFileErr(files, path, removed),
                                    !.again = /\ last.op = "deletefile"
                                              /\ last.path = path
                                              /\ last.removed]
    /\ UNCHANGED <<store, now, nextId, call, sweep>>

\* the Executor on its output directory
FilesNext ==
    \/ Tick
    \/ \E db \in ArchiveDBs : WriteArchive(db)
    \/ \E path \in Paths : DeleteFileCall(path)

\* a ListRecent limit the store does not reach: the 1000 of the source with
\* fewer records than that in the table
ListAll == MaxBackups

\* backups and their sweeps while the table is smaller than the sweep's limit
SweepNext ==
    \/ Tick
    \/ \E db \in DBs : BeginBackup(db, "manual", FALSE, {})
    \/ \E id \in Ids, sz \in Sizes : FinishCompleted(id, sz, FALSE, {})
    \/ \E s \in Ids : SweepListUpTo(s, {}, ListAll)
    \/ \E s \in Ids : SweepItem(s, {})

\* the Service as the HTTP handlers drive it: every backup is a manual
\* TriggerBackup under the request's context (the scheduled runBackup is
\* started by Fire below; it takes the same path without cancellation)
BackupNext(obs) ==
    \/ Tick
    \/ \E db \in DBs, cancelled \in BOOLEAN :
          BeginBackup(db, "manual", cancelled, obs)
    \/ \E id \in Ids, e \in ExecErrors, cancelled \in BOOLEAN :
          FinishFailed(id, e, cancelled, obs)
    \/ \E id \in Ids, sz \in Sizes, cancelled \in BOOLEAN :
          FinishCompleted(id, sz, cancelled, obs)
    \/ \E s \in Ids : SweepList(s, obs)
    \/ \E s \in Ids : SweepItem(s, obs)
    \/ \E id \in Ids : DeleteBackup(id, obs)
    \/ \E id \in Ids : RestoreBackup(id, obs)

(* ------------------------------ Scheduler ----------------------------- *)

Procs == {1, 2}
NoProc == 0
NoEntry == 0
Names == {"daily-orders", "weekly-orders"}

\* trigger expressions, as their fields
Daily == <<"0", "0", "0", "*", "*", "*">>
Weekly == <<"0", "0", "0", "*", "*", "0">>
FiveFields == <<"0", "0", "*", "*", "*">>
Exprs == {Daily, Weekly, FiveFields}

\* cron.New(cron.WithSeconds()): the parser wants the six fields, seconds first
ParseOK(expr) == Len(expr) = 6

IdleAdder == [pc |-> "idle", name |-> "", expr |-> <<>>, db |-> ""]

InProgress == {p \in Procs : adder[p].pc # "idle"}

SchedInit ==
    /\ cron = [running |-> FALSE, entries |-> {}, nextID |-> 0]
    /\ jobs = [n \in Names |-> NoEntry]
    /\ mu = NoProc
    /\ adder = [p \in Procs |-> IdleAdder]
    /\ running = {}
    /\ life = [started |-> FALSE, stopped |-> FALSE, waited |-> FALSE,
               handleDone |-> FALSE, crashed |-> FALSE]

\* s.mu.Lock() goes through when nobody holds the mutex
LockIgnored(p) == TRUE

MuFree(p) == mu = NoProc

\* cron.Remove(id): the entry with that id, if there is one, is dropped
CronRemove(entries, id) == {e \in entries : e.id # id}

\* AddJob, first half: s.mu.Lock(), the lookup of the name and the removal
\* of the trigger it maps to
AddJobBegin(p, name, expr, db) ==
    /\ adder[p].pc = "idle"
    /\ cron.nextID + Cardinality(InProgress) < MaxAdds
    /\ MuFree(p)
    /\ mu' = p
    /\ adder' = [adder EXCEPT ![p] = [pc |-> "removed", name |-> name, expr |-> expr,
                                      db |-> db]]
    /\ cron' = IF jobs[name] # NoEntry
               THEN [cron EXCEPT !.entries = CronRemove(@, jobs[name])]
               ELSE cron
    /\ UNCHANGED <<jobs, running, life>>

\* AddJob, second half: cron.AddFunc (an unparseable expression returns the
\* error here), s.jobs[id] = entryID, and the deferred s.mu.Unlock()
AddJobEnd(p) ==
    /\ adder[p].pc = "removed"
    /\ LET a == adder[p]
           id == cron.nextID + 1
       IN  IF ParseOK(a.expr)
           THEN /\ cron' = [cron EXCEPT !.nextID = id,
                                        !.entries = @ \cup {[id |-> id, name |-> a.name,
                                                             expr |-> a.expr, db |-> a.db]}]
                /\ jobs' = [jobs EXCEPT ![a.name] = id]
           ELSE UNCHANGED <<cron, jobs>>
    /\ mu' = NoProc
    /\ adder' = [adder EXCEPT ![p] = IdleAdder]
    /\ UNCHANGED <<running, life>>

\* RemoveJob: under the mutex, remove the trigger and the map entry
RemoveJob(name) ==
    /\ mu = NoProc
    /\ jobs[name] # NoEntry
    /\ cron' = [cron EXCEPT !.entries = CronRemove(@, jobs[name])]
    /\ jobs' = [jobs EXCEPT ![name] = NoEntry]
    /\ UNCHANGED <<mu, adder, running, life>>

\* Scheduler.Start, called once by run() before the jobs are set up
Start ==
    /\ ~life.started
    /\ life' = [life EXCEPT !.started = TRUE]
    /\ cron' = [cron EXCEPT !.running = TRUE]
    /\ UNCHANGED <<jobs, mu, adder, running>>

\* Scheduler.Stop, called once by run() on shutdown: cron.Stop() ends the
\* firing loop and returns a context that is cancelled by a goroutine that
\* waits for the running jobs
Stop ==
    /\ life.started
    /\ ~life.stopped
    /\ cron' = [cron EXCEPT !.running = FALSE]
    /\ life' = [life EXCEPT !.stopped = TRUE, !.waited = (running # {})]
    /\ UNCHANGED <<jobs, mu, adder, running>>

\* the firing loop only runs between Start and Stop
AlwaysFires == TRUE

CanFire == cron.running

\* jobWaiter.Wait() returns
NeverWaits == TRUE

JobWaiterZero == running = {}

\* the goroutine started by cron.Stop(): jobWaiter.Wait(), then cancel()
HandleDone ==
    /\ life.stopped
    /\ ~life.handleDone
    /\ JobWaiterZero
    /\ life' = [life EXCEPT !.handleDone = TRUE]
    /\ UNCHANGED <<cron, jobs, mu, adder, running>>

\* an entry's time comes: the job closure of AddJob runs in its own
\* goroutine and calls runBackup(context.Background(), dbName); when the
\* record cannot be created runBackup returns at once and so does the job
Fire(e, obs) ==
    /\ CanFire
    /\ e \in cron.entries
    /\ BeginBackup(e.db, "scheduled", FALSE, obs)
    /\ running' = IF call'[nextId].pc = "exec" THEN running \cup {nextId} ELSE running
    /\ UNCHANGED <<cron, jobs, mu, adder, life>>

\* runBackup returns its error to the job closure, which logs it and returns
JobFailedStopsCron(id, e, obs) ==
    /\ id \in running
    /\ FinishFailed(id, e, FALSE, obs)
    /\ running' = running \ {id}
    /\ cron' = [cron EXCEPT !.running = FALSE, !.entries = {}]
    /\ UNCHANGED <<jobs, mu, adder, life>>

JobFailed(id, e, obs) ==
    /\ id \in running
    /\ FinishFailed(id, e, FALSE, obs)
    /\ running' = running \ {id}
    /\ UNCHANGED <<cron, jobs, mu, adder, life>>

\* runBackup returns nil: the job closure logs the completion and returns
\* (the sweep goroutine it started goes on by itself)
JobCompletedWaitsForSweep(id, sz, obs) ==
    /\ id \in running
    /\ FinishCompleted(id, sz, FALSE, obs)
    /\ running' = running
    /\ UNCHANGED <<cron, jobs, mu, adder, life>>

JobCompleted(id, sz, obs) ==
    /\ id \in running
    /\ FinishCompleted(id, sz, FALSE, obs)
    /\ running' = running \ {id}
    /\ UNCHANGED <<cron, jobs, mu, adder, life>>

\* a panic inside the job's goroutine: neither the closure nor the cron
\* engine (built without a recovering job wrapper) has a recover, so the Go
\* runtime ends the process
JobPanic(id) ==
    /\ id \in running
    /\ life' = [life EXCEPT !.crashed = TRUE]
    /\ last' = NoLast
    /\ UNCHANGED <<store, files, now, nextId, call, sweep,
                   cron, jobs, mu, adder, running>>

SchedNext(obs) ==
    /\ ~life.crashed
    /\ \/ /\ \/ \E p \in Procs, name \in Names, expr \in Exprs, db \in DBs :
                   AddJobBegin(p, name, expr, db)
             \/ \E p \in Procs : AddJobEnd(p)
             \/ \E name \in Names : RemoveJob(name)
             \/ Start
             \/ Stop
             \/ HandleDone
          /\ last' = NoLast
          /\ UNCHANGED <<store, files, now, nextId, call, sweep>>
       \/ \E e \in cron.entries : Fire(e, obs)
       \/ \E id \in Ids, e \in ExecErrors : JobFailed(id, e, obs)
       \/ \E id \in Ids, sz \in Sizes : JobCompleted(id, sz, obs)
       \/ \E id \in Ids : JobPanic(id)

(* --------------------------- websocket.Hub ---------------------------- *)

Viewers == 1..MaxViewers

\* the viewer is not connected yet; ahead counts the messages that were on
\* h.broadcast when its registration was submitted and are still there
NoView == [st |-> "none", rp |-> "off", wp |-> "off", ahead |-> 0]

\* json.Marshal(Message{Type, Payload, Timestamp}): the bytes, here the
\* fields in their wire order; the payloads are numbered by Broadcast call
Marshal(msg) == <<"type", msg.type, "payload", msg.payload>>

\* the payload number carried by a serialized message
PayloadOf(data) == data[4]

HubInit ==
    /\ clients = {}
    /\ sendq = [v \in Viewers |-> <<>>]
    /\ closed = [v \in Viewers |-> FALSE]
    /\ view = [v \in Viewers |-> NoView]
    /\ bq = <<>>
    /\ hub = TRUE
    /\ prod = "wait"
    /\ nextMsg = 0
    /\ sig = FALSE
    /\ skipped = FALSE

\* Handler.ServeHTTP up to `h.hub.register <- client`: the client is built
\* with an open queue and the handler blocks on the unbuffered channel
Connect(v) ==
    /\ view[v].st = "none"
    /\ view' = [view EXCEPT ![v] = [NoView EXCEPT !.st = "registering",
                                                  !.ahead = Len(bq)]]
    /\ skipped' = FALSE
    /\ UNCHANGED <<clients, sendq, closed, bq, hub, prod, nextMsg, sig>>

\* Hub.Run, case client := <-h.register; the handler goes on and starts
\* WritePump and ReadPump
HubRegisterAfterReturn(v) ==
    /\ view[v].st = "registering"
    /\ clients' = clients \cup {v}
    /\ view' = [view EXCEPT ![v] = [@ EXCEPT !.st = "live", !.rp = "run", !.wp = "run"]]
    /\ skipped' = FALSE
    /\ UNCHANGED <<sendq, closed, bq, hub, prod, nextMsg, sig>>

HubRegister(v) ==
    /\ hub
    /\ view[v].st = "registering"
    /\ clients' = clients \cup {v}
    /\ view' = [view EXCEPT ![v] = [@ EXCEPT !.st = "live", !.rp = "run", !.wp = "run"]]
    /\ skipped' = FALSE
    /\ UNCHANGED <<sendq, closed, bq, hub, prod, nextMsg, sig>>

\* WritePump: a message is taken from c.send and written to the transport
WriteMsg(v) ==
    /\ view[v].wp = "run"
    /\ sendq[v] # <<>>
    /\ sendq' = [sendq EXCEPT ![v] = Tail(@)]
    /\ skipped' = FALSE
    /\ UNCHANGED <<clients, closed, view, bq, hub, prod, nextMsg, sig>>

\* WritePump ends: the queue is closed and drained, the handler's context is
\* cancelled (ReadPump has returned), or a write failed (the message is
\* lost); the deferred function closes the transport and blocks on
\* `c.hub.unregister <- c`
WriteEnd(v) ==
    /\ view[v].wp = "run"
    /\ \/ /\ closed[v] /\ sendq[v] = <<>>
          /\ sendq' = sendq
       \/ /\ view[v].rp = "done"
          /\ sendq' = sendq
       \/ /\ sendq[v] # <<>>
          /\ sendq' = [sendq EXCEPT ![v] = Tail(@)]
    /\ view' = [view EXCEPT ![v] = [@ EXCEPT !.wp = "unreg"]]
    /\ skipped' = FALSE
    /\ UNCHANGED <<clients, closed, bq, hub, prod, nextMsg, sig>>

\* ReadPump ends: conn.Read failed (the peer went away, or WritePump closed
\* the transport); the deferred function blocks on `c.hub.unregister <- c`
ReadEnd(v) ==
    /\ view[v].rp = "run"
    /\ view' = [view EXCEPT ![v] = [@ EXCEPT !.rp = "unreg"]]
    /\ skipped' = FALSE
    /\ UNCHANGED <<clients, sendq, closed, bq, hub, prod, nextMsg, sig>>

Pumps == {"rp", "wp"}

\* Hub.Run, case client := <-h.unregister: remove and close if present; the
\* pump that sent it goes on (ReadPump closes the transport and ServeHTTP
\* returns, cancelling the handler's context)
HubUnregister(v, pump) ==
    /\ hub
    /\ view[v][pump] = "unreg"
    /\ IF v \in clients
       THEN /\ clients' = clients \ {v}
            /\ closed' = [closed EXCEPT ![v] = TRUE]
       ELSE UNCHANGED <<clients, closed>>
    /\ view' = [view EXCEPT ![v] = [@ EXCEPT ![pump] = "done"]]
    /\ skipped' = FALSE
    /\ UNCHANGED <<sendq, bq, hub, prod, nextMsg, sig>>

\* the viewers of the active set whose queue has no free slot: the default
\* branch of the non-blocking send
NoneFull(cs) == {}

Full(cs) == {v \in cs : Len(sendq[v]) >= SendCap}

\* the viewers the loop over h.clients sends the message to
FirstRecipient(cs) ==
    IF cs \ Full(cs) = {} THEN {} ELSE {CHOOSE v \in cs \ Full(cs) : TRUE}

Recipients(cs) == cs \ Full(cs)

\* case client.send <- message: the message goes to the tail of the queue
DeliverTwice(q, message) == Append(Append(q, message), message)

Deliver(q, message) == Append(q, message)

\* the default branch: delete(h.clients, client) before close(client.send)
EvictKeepsInSet(cs, full) == cs

Evict(cs, full) == cs \ full

\* Hub.Run, case message := <-h.broadcast: the non-blocking send to every
\* client of the set; a client whose queue is full is deleted and closed.
\* (The loop is one step: the write lock it takes in between only excludes
\* ClientCount, and a WritePump that drains a queue during the loop has the
\* effect of one that drained it before.)
HubBroadcast ==
    /\ hub
    /\ bq # <<>>
    /\ LET message == Head(bq)
           full == Full(clients)
       IN  /\ sendq' = [v \in Viewers |->
                          IF v \in Recipients(clients) THEN Deliver(sendq[v], message)
                          ELSE sendq[v]]
           /\ clients' = Evict(clients, full)
           /\ closed' = [v \in Viewers |-> closed[v] \/ v \in full]
    /\ bq' = Tail(bq)
    /\ view' = [v \in Viewers |->
                 [view[v] EXCEPT !.ahead = IF @ > 0 THEN @ - 1 ELSE 0]]
    /\ skipped' = FALSE
    /\ UNCHANGED <<hub, prod, nextMsg, sig>>

\* Hub.Run, case <-ctx.Done(): every client is closed and deleted, and the
\* loop returns
HubShutdownKeepsQueues ==
    /\ hub
    /\ sig
    /\ clients' = {}
    /\ hub' = FALSE
    /\ skipped' = FALSE
    /\ UNCHANGED <<sendq, closed, view, bq, prod, nextMsg, sig>>

HubShutdown ==
    /\ hub
    /\ sig
    /\ closed' = [v \in Viewers |-> closed[v] \/ v \in clients]
    /\ clients' = {}
    /\ hub' = FALSE
    /\ skipped' = FALSE
    /\ UNCHANGED <<sendq, view, bq, prod, nextMsg, sig>>

\* SIGINT / SIGTERM: signal.NotifyContext cancels the context of run()
Signal ==
    /\ ~sig
    /\ sig' = TRUE
    /\ skipped' = FALSE
    /\ UNCHANGED <<clients, sendq, closed, view, bq, hub, prod, nextMsg>>

\* Hub.ClientCount
ClientCount == Cardinality(clients)

\* the producer's test on a tick
NeverSkip(n) == FALSE

SkipTick(n) == n = 0

\* MetricsBroadcaster.run, case <-ticker.C: with no client the tick is
\* skipped, otherwise the metrics getter is called
ProducerTick ==
    /\ prod = "wait"
    /\ nextMsg < MaxMsgs
    /\ IF SkipTick(ClientCount)
       THEN /\ prod' = "wait"
            /\ skipped' = TRUE
       ELSE /\ prod' = "fetch"
            /\ skipped' = FALSE
    /\ UNCHANGED <<clients, sendq, closed, view, bq, hub, nextMsg, sig>>

\* Hub.Broadcast(msgType, payload): marshal, then the non-blocking send to
\* h.broadcast; with the queue full the message is dropped
BroadcastOverfills(q, msgType, payload) ==
    Append(q, Marshal([type |-> msgType, payload |-> payload]))

Broadcast(q, msgType, payload) ==
    LET data == Marshal([type |-> msgType, payload |-> payload])
    IN  IF Len(q) < BroadcastCap THEN Append(q, data) ELSE q

\* the metrics getter returns: on an error the tick ends, otherwise the
\* snapshot is handed to Hub.Broadcast
ProducerFetch ==
    /\ prod = "fetch"
    /\ prod' = "wait"
    /\ \/ UNCHANGED <<bq, nextMsg>>
       \/ /\ nextMsg' = nextMsg + 1
          /\ bq' = Broadcast(bq, "metrics", nextMsg + 1)
    /\ skipped' = FALSE
    /\ UNCHANGED <<clients, sendq, closed, view, hub, sig>>

\* MetricsBroadcaster.run, case <-ctx.Done()
ProducerStop ==
    /\ prod = "wait"
    /\ sig
    /\ prod' = "stopped"
    /\ skipped' = FALSE
    /\ UNCHANGED <<clients, sendq, closed, view, bq, hub, nextMsg, sig>>

\* the producer without a bound on its ticks: the ticker goes on for ever
\* and the snapshots are not told apart (payload 0)
TickAny ==
    /\ prod = "wait"
    /\ IF SkipTick(ClientCount)
       THEN /\ prod' = "wait"
            /\ skipped' = TRUE
       ELSE /\ prod' = "fetch"
            /\ skipped' = FALSE
    /\ UNCHANGED <<clients, sendq, closed, view, bq, hub, nextMsg, sig>>

FetchAny ==
    /\ prod = "fetch"
    /\ prod' = "wait"
    /\ \/ bq' = bq
       \/ bq' = Broadcast(bq, "metrics", 0)
    /\ skipped' = FALSE
    /\ UNCHANGED <<clients, sendq, closed, view, hub, nextMsg, sig>>

\* the hub and the pumps under a producer that never runs out of ticks
PumpsNext ==
    \/ \E v \in Viewers : Connect(v)
    \/ \E v \in Viewers : HubRegister(v)
    \/ \E v \in Viewers : WriteMsg(v)
    \/ \E v \in Viewers : WriteEnd(v)
    \/ \E v \in Viewers : ReadEnd(v)
    \/ \E v \in Viewers, pump \in Pumps : HubUnregister(v, pump)
    \/ HubBroadcast
    \/ HubShutdown
    \/ Signal
    \/ TickAny
    \/ FetchAny
    \/ ProducerStop

HubNext ==
    \/ \E v \in Viewers : Connect(v)
    \/ \E v \in Viewers : HubRegister(v)
    \/ \E v \in Viewers : WriteMsg(v)
    \/ \E v \in Viewers : WriteEnd(v)
    \/ \E v \in Viewers : ReadEnd(v)
    \/ \E v \in Viewers, pump \in Pumps : HubUnregister(v, pump)
    \/ HubBroadcast
    \/ HubShutdown
    \/ Signal
    \/ ProducerTick
    \/ ProducerFetch
    \/ ProducerStop

(* ------------------------------- run() -------------------------------- *)

\* run() before the scheduler is started: the health handler is ready, the
\* store connections are open, the listener is not up yet
MainInit ==
    main = [pc |-> "init", ready |-> TRUE, listening |-> FALSE, expired |-> FALSE,
            err |-> "none", mongoClosed |-> FALSE, sqliteClosed |-> FALSE]

\* backupSvc.StartScheduler()
MainStartScheduler ==
    /\ main.pc = "init"
    /\ Start
    /\ main' = [main EXCEPT !.pc = "setup"]

\* backupSvc.SetupDailyBackup(cfg.Mongo.Database): AddJob("daily-"+db,
\* "0 0 0 * * *", db), up to the removal of an existing trigger
MainSetupBegin ==
    /\ main.pc = "setup"
    /\ AddJobBegin(1, "daily-orders", Daily, "orders")
    /\ main' = [main EXCEPT !.pc = "adding"]

\* the rest of that AddJob; then srv.Start() brings the listener up and
\* run() waits for the signal
MainSetupEnd ==
    /\ main.pc = "adding"
    /\ AddJobEnd(1)
    /\ main' = [main EXCEPT !.pc = "serving", !.listening = TRUE]

\* whether context.WithTimeout(Background, ShutdownTimeout+drainDelay+5s) is
\* expired before the drain delay (5s) is over: only with a configured
\* server.shutdown_timeout below -5s, which validate() lets through
ExpiredAtDrain == BOOLEAN

\* case <-ctx.Done() of run(): the shutdown context is made
MainSignalled ==
    /\ main.pc = "serving"
    /\ sig
    /\ \E x \in ExpiredAtDrain : main' = [main EXCEPT !.pc = "shutdown", !.expired = x]
    /\ UNCHANGED schedVars

\* Server.Shutdown: SetReady(false), SetShutdown(true)
ServerMarkNotReady ==
    /\ main.pc = "shutdown"
    /\ main' = [main EXCEPT !.pc = "drain", !.ready = FALSE]
    /\ UNCHANGED schedVars

\* Server.Shutdown: the select on ctx.Done() and time.After(drainDelay); on
\* ctx.Done() Shutdown returns ctx.Err() at once, run() logs it and goes on
\* with the scheduler
ServerDrain ==
    /\ main.pc = "drain"
    /\ main' = IF main.expired
               THEN [main EXCEPT !.pc = "stopsched", !.err = "drain"]
               ELSE [main EXCEPT !.pc = "httpstop"]
    /\ UNCHANGED schedVars

\* httpServer.Shutdown: the listeners are closed first
HttpStopListening ==
    /\ main.pc = "httpstop"
    /\ main' = [main EXCEPT !.pc = "httpwait", !.listening = FALSE]
    /\ UNCHANGED schedVars

\* the HTTP requests in flight: the manual backups that have not returned
InFlight == {id \in Ids : call[id].pc = "exec" /\ id \notin running}

\* httpServer.Shutdown returns: nil when no request is in flight, the
\* context's error when ShutdownTimeout passes first (the requests go on);
\* run() logs the error and goes on
HttpWait ==
    /\ main.pc = "httpwait"
    /\ main' = IF InFlight = {}
               THEN [main EXCEPT !.pc = "stopsched"]
               ELSE [main EXCEPT !.pc = "stopsched", !.err = "http"]
    /\ UNCHANGED schedVars

\* schedulerCtx := backupSvc.StopScheduler()
MainStopScheduler ==
    /\ main.pc = "stopsched"
    /\ Stop
    /\ main' = [main EXCEPT !.pc = "await"]

\* the context returned by StopScheduler is done
AwaitOver == life.handleDone

\* <-schedulerCtx.Done()
MainAwait ==
    /\ main.pc = "await"
    /\ AwaitOver
    /\ main' = [main EXCEPT !.pc = "closemongo"]
    /\ UNCHANGED schedVars

\* mongoClient.Close(shutdownCtx): an error is logged
MainCloseMongo ==
    /\ main.pc = "closemongo"
    /\ main' = [main EXCEPT !.pc = "closesqlite", !.mongoClosed = TRUE]
    /\ UNCHANGED schedVars

\* sqliteClient.Close(): an error is logged; run() returns and the process
\* exits
MainCloseSqlite ==
    /\ main.pc = "closesqlite"
    /\ main' = [main EXCEPT !.pc = "done", !.sqliteClosed = TRUE]
    /\ UNCHANGED schedVars

MainStep ==
    /\ \/ MainStartScheduler
       \/ MainSetupBegin
       \/ MainSetupEnd
       \/ MainSignalled
       \/ ServerMarkNotReady
       \/ ServerDrain
       \/ HttpStopListening
       \/ HttpWait
       \/ MainStopScheduler
       \/ MainAwait
       \/ MainCloseMongo
       \/ MainCloseSqlite
    /\ last' = NoLast
    /\ UNCHANGED <<store, files, now, nextId, call, sweep, hubVars>>

\* the goroutine of cron.Stop() completes the handle
HandleStep ==
    /\ HandleDone
    /\ last' = NoLast
    /\ UNCHANGED <<store, files, now, nextId, call, sweep, hubVars, main>>

\* a statement on the closed sqlite connection fails, as one under a
\* cancelled context does
StoreDown == main.sqliteClosed

\* POST /backups while the listener accepts: TriggerBackup under the
\* request's context
RequestBegin(db) ==
    /\ main.listening
    /\ \E cancelled \in BOOLEAN :
          /\ StoreDown => cancelled
          /\ BeginBackup(db, "manual", cancelled, {})
    /\ UNCHANGED <<schedVars, hubVars, main>>

RequestFailed(id, e) ==
    /\ id \in InFlight
    /\ \E cancelled \in BOOLEAN :
          /\ StoreDown => cancelled
          /\ FinishFailed(id, e, cancelled, {})
    /\ UNCHANGED <<schedVars, hubVars, main>>

RequestCompleted(id, sz) ==
    /\ id \in InFlight
    /\ \E cancelled \in BOOLEAN :
          /\ StoreDown => cancelled
          /\ FinishCompleted(id, sz, cancelled, {})
    /\ UNCHANGED <<schedVars, hubVars, main>>

\* the signal arrives
SignalStep == Signal /\ UNCHANGED <<backupVars, schedVars, main>>

\* a step of a job invocation that returns
JobReturns ==
    /\ \/ \E id \in Ids, e \in ExecErrors : JobFailed(id, e, {})
       \/ \E id \in Ids, sz \in Sizes : JobCompleted(id, sz, {})
    /\ UNCHANGED <<hubVars, main>>

\* a request handler returns
RequestReturns ==
    \/ \E id \in Ids, e \in ExecErrors : RequestFailed(id, e)
    \/ \E id \in Ids, sz \in Sizes : RequestCompleted(id, sz)

\* the process exists: run() has not returned and no panic has ended it
Alive == main.pc # "done" /\ ~life.crashed

\* the process runs until run() returns or a panic ends it
ShutdownNext ==
    /\ Alive
    /\ \/ MainStep
       \/ HandleStep
       \/ SignalStep
       \/ \E db \in DBs : RequestBegin(db)
       \/ RequestReturns
       \/ \E e \in cron.entries : Fire(e, {}) /\ UNCHANGED <<hubVars, main>>
       \/ JobReturns
       \/ \E id \in Ids : JobPanic(id) /\ UNCHANGED <<hubVars, main>>

\* a step of a sweep goroutine while the process runs: its context is its
\* own (context.Background with a timeout), not the one of run()
SweepRuns ==
    /\ \/ \E s \in Ids : SweepList(s, {})
       \/ \E s \in Ids : SweepItem(s, {})
    /\ UNCHANGED <<schedVars, hubVars, main>>

\* time passes while the process runs
ClockStep == Tick /\ UNCHANGED <<schedVars, hubVars, main>>

\* the process with its scheduled jobs, their sweep goroutines and the
\* clock (no HTTP backup requests)
ShutdownSweepNext ==
    /\ Alive
    /\ \/ MainStep
       \/ HandleStep
       \/ SignalStep
       \/ \E e \in cron.entries : Fire(e, {}) /\ UNCHANGED <<hubVars, main>>
       \/ JobReturns
       \/ SweepRuns
       \/ ClockStep

Init == BackupInit /\ SchedInit /\ HubInit /\ MainInit

\* the backup lifecycle: what TriggerBackup / runBackup return and how a
\* sweep ends are recorded
SpecBackup ==
    Init /\ [][BackupNext({"trigger", "sweep"}) /\ UNCHANGED <<schedVars, hubVars, main>>]_vars

\* the same, with the returns of DeleteBackup and RestoreBackup recorded too
SpecOps == Init /\ [][BackupNext(AllOps) /\ UNCHANGED <<schedVars, hubVars, main>>]_vars

\* the scheduler: its jobs are the scheduled backups
SpecSched == Init /\ [][SchedNext({}) /\ UNCHANGED <<hubVars, main>>]_vars

\* triggering, restoring and deleting backups
SpecManage == Init /\ [][ManageNext /\ UNCHANGED <<schedVars, hubVars, main>>]_vars

\* the retention sweeps of a table below the sweep's list limit
SpecSweep == Init /\ [][SweepNext /\ UNCHANGED <<schedVars, hubVars, main>>]_vars

\* the executor's file operations
SpecFiles == Init /\ [][FilesNext /\ UNCHANGED <<schedVars, hubVars, main>>]_vars

\* a step of the hub, a pump or the producer leaves the rest alone
HubOnly == UNCHANGED <<backupVars, schedVars, main>>

\* the hub, its viewers and the periodic producer
SpecHub == Init /\ [][HubNext /\ HubOnly]_vars

\* conn.Close has been called on the viewer's transport: by WritePump's
\* deferred function before it sends on h.unregister, by ReadPump's after it
TransportLeftOpen(v) == FALSE

TransportClosed(v) == view[v].wp \in {"unreg", "done"} \/ view[v].rp = "done"

\* the same with the scheduling the Go runtime gives: the hub loop, the
\* pumps and the producer go on when they can, and a Read on a closed
\* transport fails; nothing makes a peer connect or leave
SpecHubFair ==
    /\ SpecHub
    /\ \A v \in Viewers :
          /\ WF_vars(HubRegister(v) /\ HubOnly)
          /\ WF_vars(WriteMsg(v) /\ HubOnly)
          /\ WF_vars(WriteEnd(v) /\ HubOnly)
          /\ WF_vars(TransportClosed(v) /\ ReadEnd(v) /\ HubOnly)
          /\ \A pump \in Pumps : WF_vars(HubUnregister(v, pump) /\ HubOnly)
    /\ WF_vars(HubBroadcast /\ HubOnly)
    /\ WF_vars(HubShutdown /\ HubOnly)
    /\ WF_vars(ProducerTick /\ HubOnly)
    /\ WF_vars(ProducerFetch /\ HubOnly)
    /\ WF_vars(ProducerStop /\ HubOnly)

\* the hub and the pumps with a producer that ticks for ever, under the same
\* scheduling
SpecPumpsFair ==
    /\ Init /\ [][PumpsNext /\ HubOnly]_vars
    /\ \A v \in Viewers :
          /\ WF_vars(HubRegister(v) /\ HubOnly)
          /\ WF_vars(WriteMsg(v) /\ HubOnly)
          /\ WF_vars(WriteEnd(v) /\ HubOnly)
          /\ WF_vars(TransportClosed(v) /\ ReadEnd(v) /\ HubOnly)
          /\ \A pump \in Pumps : WF_vars(HubUnregister(v, pump) /\ HubOnly)
    /\ WF_vars(HubBroadcast /\ HubOnly)
    /\ WF_vars(HubShutdown /\ HubOnly)
    /\ WF_vars(TickAny /\ HubOnly)
    /\ WF_vars(FetchAny /\ HubOnly)
    /\ WF_vars(ProducerStop /\ HubOnly)

\* run() from the start of the scheduler to its return, with the HTTP
\* backup requests and the scheduled jobs
SpecShutdown == Init /\ [][ShutdownNext]_vars

\* the same with the retention sweeps and the clock
SpecShutdownSweeps == Init /\ [][ShutdownSweepNext]_vars

\* the same with the scheduling the Go runtime gives: run(), the handle's
\* goroutine, the request handlers and the job goroutines go on when they
\* can, as long as the process exists; the signal arrives
SpecShutdownFair ==
    /\ SpecShutdown
    /\ WF_vars(Alive /\ MainStep)
    /\ WF_vars(Alive /\ HandleStep)
    /\ WF_vars(Alive /\ SignalStep)
    /\ WF_vars(Alive /\ RequestReturns)
    /\ WF_vars(Alive /\ JobReturns)

Spec == SpecBackup

(* ------------------------------ claims -------------------------------- *)

Terminal == {"completed", "failed"}

TypeOK ==
    /\ now \in 0..MaxTime
    /\ nextId \in 1..(MaxBackups + 1)
    /\ \A i \in Ids : store[i] # NoRec =>
          /\ store[i].status \in Terminal \cup {"running"}
          /\ store[i].trig \in Triggers
          /\ store[i].startedAt \in 0..MaxTime
    /\ running \subseteq Ids
    /\ mu \in Procs \cup {NoProc}

\* C1: when a trigger whose record was created returns, the stored record is
\* completed or failed, never running.
TriggerLeavesTerminal ==
    (last.op = "trigger" /\ last.created /\ store[last.id] # NoRec)
        => store[last.id].status \in Terminal

\* C2 as stated: an error is returned only when record creation failed; a
\* created record is always returned, completed after an executor success
\* and failed after an executor failure.
TriggerErrorOnlyOnCreate ==
    last.op = "trigger" =>
        /\ last.ret.kind = "error" => ~last.created
        /\ last.created =>
              /\ last.ret.kind = "record"
              /\ last.exec = "ok" => last.ret.rec.status = "completed"
              /\ last.exec = "fail" => last.ret.rec.status = "failed"

\* C2 (amended): TriggerBackup returns an error when record creation fails,
\* when the executor fails and when the completed status write fails; it
\* returns the record, with status completed and the executor's path and
\* size, exactly when the executor succeeded and the status write succeeded.
TriggerReturn ==
    last.op = "trigger" =>
        /\ last.ret.kind \in {"record", "error"}
        /\ last.ret.kind = "record" <=>
              (last.created /\ last.exec = "ok" /\ last.write = "ok")
        /\ last.ret.kind = "record" =>
              /\ last.ret.rec.status = "completed"
              /\ last.ret.rec.path = last.path
              /\ last.ret.rec.size = last.size
        /\ ~last.created => last.ret.msg = "create backup record"
        /\ last.exec = "fail" => last.ret.msg = "execute backup"
        /\ (last.exec = "ok" /\ last.write = "fail") => last.ret.msg = "update backup status"

\* C2 witness: a trigger returned after its executor failed
TriggerReturnedAfterExecFailure ==
    /\ last.op = "trigger"
    /\ last.created
    /\ last.exec = "fail"
    /\ store[last.id] # NoRec
    /\ store[last.id].status = "failed"

\* C3: after an executor success with path P and size S the stored record
\* is completed with size S, path P and no error message, and the returned
\* record carries the same status, path and size.
CompletedRecordStored ==
    (last.op = "trigger" /\ last.exec = "ok") =>
        /\ last.ret.kind = "record"
        /\ last.ret.rec.status = "completed"
        /\ last.ret.rec.path = last.path
        /\ last.ret.rec.size = last.size
        /\ GetByID(store, last.id) # NoRec =>
              /\ GetByID(store, last.id).status = "completed"
              /\ GetByID(store, last.id).size = last.size
              /\ GetByID(store, last.id).path = last.path
              /\ GetByID(store, last.id).err = ""

\* C4: after an executor failure the stored record is failed with a
\* non-empty error message, empty path and size 0; DeleteBackup on a failed
\* record removes it and succeeds (unless the record delete itself fails).
FailedRecordStoredAndDeletable ==
    /\ (last.op = "trigger" /\ last.exec = "fail" /\ store[last.id] # NoRec) =>
          /\ store[last.id].status = "failed"
          /\ store[last.id].err # ""
          /\ store[last.id].path = NoPath
          /\ store[last.id].size = 0
    /\ (last.op = "delete" /\ last.found # NoRec /\ last.found.status = "failed"
            /\ last.ret.msg # "delete backup record") =>
          /\ last.ret = OkRet
          /\ store[last.id] = NoRec

\* C5 as stated: after a sweep that listed the store and ran to its end, no
\* record older than the cutoff remains, whatever the store held.
SweepLeavesNoOldRecord ==
    (last.op = "sweep" /\ last.listOk) =>
        \A i \in Ids : store[i] # NoRec => store[i].startedAt >= last.cutoff

\* a step of sweep s's loop
SweepLoopStep(s) == sweep[s].pc = "loop" /\ sweep'[s] # sweep[s]

\* C5 (amended): after a sweep that ran to its end, no record that the sweep
\* listed (the 1000 most recently started ones) and whose record delete did
\* not fail remains older than the cutoff; no step of the sweep changes a
\* record that is inside the window.
SweepRemovesListedOld ==
    /\ [](  (last.op = "sweep" /\ last.listOk) =>
               \A i \in last.listed \ last.delFailed :
                  store[i] # NoRec => store[i].startedAt >= last.cutoff)
    /\ [][\A s \in Ids : SweepLoopStep(s) =>
             \A i \in Ids :
                (store[i] # NoRec /\ store[i].startedAt >= sweep[s].cutoff)
                    => store'[i] = store[i]]_vars

\* C5 witness: a sweep ended after deleting a listed old record while a
\* record inside the window is in the store
SweepDeletedOldKeptNew ==
    /\ last.op = "sweep"
    /\ last.listOk
    /\ \E i \in last.listed \ last.delFailed : store[i] = NoRec
    /\ \E j \in Ids : store[j] # NoRec /\ store[j].startedAt >= last.cutoff

\* C6: a record is inserted as running, its status only moves from running
\* to completed or failed, and once it is completed or failed no step
\* changes it except its deletion.
StatusOnlyMovesForward ==
    [][\A i \in Ids :
          /\ (store[i] = NoRec /\ store'[i] # NoRec) =>
                /\ store'[i].status = "running"
                /\ call[i].pc = "idle"
          /\ (store[i] # NoRec /\ store[i].status \in Terminal) =>
                store'[i] \in {store[i], NoRec}
          /\ (store[i] # NoRec /\ store[i].status = "running" /\ store'[i] # store[i]) =>
                \/ store'[i] = NoRec
                \/ /\ store'[i].status \in Terminal
                   /\ call[i].pc = "exec" /\ call'[i].pc = "done"]_vars

\* C6 witness: a record is completed and another call has written its own
\* final status after that
TerminalRecordSurvivesOtherWrite ==
    /\ last.op = "trigger"
    /\ last.write = "ok"
    /\ \E i \in Ids \ {last.id} : store[i] # NoRec /\ store[i].status \in Terminal

TriggersOf(entries, n) == {e \in entries : e.name = n}

\* C7: an AddJob for a registered name deregisters the old trigger before it
\* installs the new one: a name never has two triggers installed, after
\* AddJob's first half the name has none, and when AddJob returns without
\* error the name's only trigger is the new one, with the new expression,
\* and the registry maps the name to it; also with concurrent callers.
ReplaceKeepsOneTrigger ==
    /\ [](\A n \in Names : Cardinality(TriggersOf(cron.entries, n)) <= 1)
    /\ [][\A p \in Procs :
             /\ (adder[p].pc = "idle" /\ adder'[p].pc = "removed") =>
                   TriggersOf(cron'.entries, adder'[p].name) = {}
             /\ (adder[p].pc = "removed" /\ adder'[p].pc = "idle"
                     /\ Len(adder[p].expr) = 6) =>
                   \E e \in cron'.entries :
                      /\ TriggersOf(cron'.entries, adder[p].name) = {e}
                      /\ e.expr = adder[p].expr
                      /\ e \notin cron.entries
                      /\ jobs'[adder[p].name] = e.id]_vars

\* C7 witness: AddJob for a name that is in the registry has taken the old
\* trigger out and is about to install the new one
ReplacingTrigger ==
    \E p \in Procs :
        /\ adder[p].pc = "removed"
        /\ jobs[adder[p].name] # NoEntry
        /\ TriggersOf(cron.entries, adder[p].name) = {}
        /\ Len(adder[p].expr) = 6

\* C8: the handle returned by Stop() is not complete while a job invocation
\* is running.
StopHandleWaits == life.handleDone => running = {}

\* C8 witness: the handle completed after a Stop() that found a job running
HandleCompletedAfterWaiting == life.handleDone /\ life.waited

\* C9: once Stop() has been called no job invocation starts.
NoInvocationAfterStop ==
    [][life.stopped => (running' \subseteq running /\ nextId' = nextId)]_vars

\* C9 witness: after Stop() one trigger is installed and AddJob is about to
\* install another
TriggersAfterStop ==
    /\ life.stopped
    /\ cron.entries # {}
    /\ \E p \in Procs : adder[p].pc = "removed" /\ Len(adder[p].expr) = 6

\* C10: a panic inside a job invocation does not terminate the process.
PanicDoesNotEndProcess == ~life.crashed

\* C11: a job invocation that returns an error (the executor failed, or the
\* completed status could not be written, so no sweep was started) leaves
\* the cron engine as it was: running, with every trigger installed, and the
\* job registry unchanged, so the job and the other jobs can fire again.
JobErrorKeepsSchedule ==
    [][\A id \in Ids :
          (id \in running /\ id \notin running' /\ sweep'[id] = sweep[id]
                /\ ~life'.crashed) =>
             /\ cron' = cron
             /\ jobs' = jobs
             /\ life' = life]_vars

\* C11 witness: the only trigger ever installed fired, its invocation failed,
\* and it has fired again
FiredAgainAfterFailure ==
    /\ cron.nextID = 1
    /\ Cardinality(cron.entries) = 1
    /\ call[1] = DoneCall
    /\ store[1] # NoRec
    /\ store[1].status = "failed"
    /\ 2 \in running

\* a step in which the hub's run loop takes a message from its queue
FanOutStep == hub /\ bq # <<>> /\ bq' = Tail(bq)

FullViewerIsEvicted ==
    /\ [][FanOutStep =>
             /\ \A v \in clients :
                   Len(sendq[v]) >= SendCap =>
                      /\ v \notin clients'
                      /\ closed'[v]
                      /\ sendq'[v] = sendq[v]
             /\ \A w \in clients :
                   Len(sendq[w]) < SendCap =>
                      /\ w \in clients'
                      /\ sendq'[w] = Append(sendq[w], Head(bq))
             /\ prod' = prod]_vars
    /\ [][\A v \in Viewers :
             closed[v] =>
                /\ closed'[v]
                /\ v \notin clients'
                /\ sendq'[v] = sendq[v] \/ (sendq[v] # <<>> /\ sendq'[v] = Tail(sendq[v]))]_vars

\* C13 witness: a viewer was evicted with a full queue (its pumps are still
\* running and the hub is up, so neither an unregistration nor the hub's
\* shutdown closed it) while another viewer holds the later message
EvictedWhileOtherReceived ==
    \E v \in Viewers, w \in clients :
        /\ hub
        /\ closed[v]
        /\ v \notin clients
        /\ view[v].rp = "run" /\ view[v].wp = "run"
        /\ Len(sendq[v]) = SendCap
        /\ sendq[w] # <<>>
        /\ PayloadOf(sendq[w][Len(sendq[w])]) > PayloadOf(sendq[v][1])

\* C14: on a tick at which the hub's viewer count is zero the producer does
\* not call the metrics getter and submits nothing: it goes to the getter
\* only from a tick that saw a viewer, and a tick without viewers leaves the
\* producer waiting, the broadcast queue and the number of Broadcast calls
\* as they were.
ProducerIdleWithoutViewers ==
    [][/\ (prod = "wait" /\ clients = {}) =>
             /\ prod' # "fetch"
             /\ nextMsg' = nextMsg
             /\ Len(bq') <= Len(bq)
       /\ skipped' =>
             /\ Cardinality(clients) = 0
             /\ prod' = "wait"
             /\ bq' = bq
             /\ nextMsg' = nextMsg]_vars

\* C14 witness: the producer has broadcast before, the viewers are gone, and
\* the tick just taken did no work
TickSkippedAfterViewersLeft ==
    /\ skipped
    /\ nextMsg >= 1
    /\ clients = {}
    /\ prod = "wait"

\* C15 as stated: every viewer that has been created is in the active set
\* if and only if its outbound queue has not been closed.
CreatedViewerInSetIffOpen ==
    \A v \in Viewers :
        view[v].st # "none" => (v \in clients <=> ~closed[v])

\* C15 (amended): every viewer whose registration the hub has processed is
\* in the active set if and only if its outbound queue has not been closed;
\* a viewer that is created and not yet registered (its handler waits for
\* the run loop to take the registration) has an open queue and is not in
\* the set.
RegisteredViewerInSetIffOpen ==
    \A v \in Viewers :
        /\ view[v].st = "live" => (v \in clients <=> ~closed[v])
        /\ view[v].st # "live" => (v \notin clients /\ ~closed[v])

\* C15 witness: of two registered viewers one has been removed and closed
\* and the other is in the set with its queue open
OneViewerClosedOneActive ==
    \E v, w \in Viewers :
        /\ view[v].st = "live" /\ closed[v] /\ v \notin clients
        /\ view[w].st = "live" /\ ~closed[w] /\ w \in clients

\* C16: events are processed in the order of their submission, so no viewer
\* is handed a message that was submitted (by a Broadcast call) before the
\* viewer's registration was submitted.
NoMessageFromBeforeRegistration ==
    [][FanOutStep => \A v \in Recipients(clients) : view[v].ahead = 0]_vars

\* C17: the shutdown steps happen in order, each after the previous one has
\* finished: the drain wait starts only when readiness is off, the scheduler
\* is stopped only when the listener has been stopped, and the stores are
\* closed, MongoDB first, only when the scheduler's handle has completed.
ShutdownStepsInOrder ==
    /\ main.pc \in {"drain", "httpstop", "httpwait", "stopsched", "await",
                    "closemongo", "closesqlite", "done"} => ~main.ready
    /\ life.stopped => ~main.listening
    /\ main.mongoClosed => (life.stopped /\ life.handleDone)
    /\ main.sqliteClosed => main.mongoClosed

\* C18: whatever step failed, when run() returns the listener has been
\* stopped, the scheduler stopped and awaited, and both stores closed.
EveryStepRunsAfterFailure ==
    main.pc = "done" =>
        /\ ~main.listening
        /\ life.stopped /\ life.handleDone
        /\ main.mongoClosed /\ main.sqliteClosed

\* C19: after the signal, run() eventually closes the stores and returns.
ShutdownCompletes == sig ~> (main.pc = "done" /\ main.mongoClosed /\ main.sqliteClosed)

\* C20: the sqlite store is not closed while a backup attempt, scheduled or
\* over HTTP, is between record creation and its final status write.
NoBackupInFlightAtClose ==
    main.sqliteClosed => \A id \in Ids : call[id].pc # "exec"

\* C21: after the shutdown signal every viewer connection that exists has
\* its transport closed and both of its pumps ended, eventually.
ViewersEndAfterSignal ==
    \A v \in Viewers :
        (sig /\ view[v].st # "none") ~>
            (TransportClosed(v) /\ view[v].rp = "done" /\ view[v].wp = "done")

\* C22: the signal reaches the scheduler at once: from the signal on, no new
\* scheduled job invocation starts.
NoJobStartsAfterSignal == [][sig => running' \subseteq running]_vars

\* C23: for every stored record and every status, path, size and error
\* message, updateStatus followed by getByID returns a record with exactly
\* that status, path, size and error, its other fields unchanged.
UpdateThenGetRoundTrip ==
    \A id \in Present(store) :
    \A status \in {"completed", "failed"}, sz \in Sizes \cup {0} :
    \A filePath \in {NoPath, OutputPath(store[id].db, now)} :
    \A errorMsg \in ExecErrors \cup {NoErr} :
        LET b == GetByID(UpdateStatus(store, id, status, filePath, sz, errorMsg, now), id)
        IN  /\ b.status = status
            /\ b.path = filePath
            /\ b.size = sz
            /\ b.err = errorMsg
            /\ b.db = store[id].db
            /\ b.startedAt = store[id].startedAt
            /\ b.trig = store[id].trig

\* C24: RestoreBackup changes no record in the store, whatever its outcome;
\* for an id that has no record it returns an error without invoking the
\* restore tool, the not-found error whenever the lookup itself answered.
RestoreChangesNoRecord ==
    [][last'.op = "restore" =>
          /\ store' = store
          /\ GetByID(store, last'.id) = NoRec =>
                /\ ~last'.invoked
                /\ last'.ret.kind = "error"
                /\ last'.ret # ErrorRet("get backup") =>
                      last'.ret = ErrorRet("backup not found")]_vars

RestoreFailedOnStoredRecord ==
    /\ last.op = "restore"
    /\ last.invoked
    /\ last.ret = ErrorRet("restore backup")
    /\ store[last.id] # NoRec

\* C30: DeleteFile on a path at which no file exists (the empty path and a
\* path already deleted included) returns no error and leaves the file
\* system unchanged.
DeleteFileIdempotent ==
    [][(last'.op = "deletefile" /\ last'.path \notin files) =>
          (last'.fileErr = NoErr /\ files' = files)]_vars

DeletedTwice ==
    /\ last.op = "deletefile"
    /\ last.path # NoPath
    /\ last.again
    /\ ~last.removed
    /\ last.fileErr = NoErr
    /\ last.path \notin files

SweepStep == \E s \in Ids : sweep[s].pc \in {"spawned", "loop"} /\ sweep'[s] # sweep[s]

\* C26: the sweep never affects the triggering call: when TriggerBackup
\* returns the record, its sweep has only been started and the value
\* returned is the completed record; every step of a sweep, failing or not,
\* is taken after the call that started it has returned and changes no call.
SweepNeverAffectsTrigger ==
    [][/\ (last'.op = "trigger" /\ last'.ret.kind = "record") =>
             /\ sweep'[last'.id].pc = "spawned"
             /\ last'.ret = RecordRet([NewBackup(call[last'.id].db, call[last'.id].trig,
                                                 call[last'.id].startedAt) EXCEPT
                                          !.path = last'.path, !.size = last'.size,
                                          !.status = "completed"])
       /\ SweepStep =>
             /\ call' = call
             /\ last'.op # "trigger"
             /\ \A s \in Ids : sweep'[s] # sweep[s] => call[s].pc = "done"]_vars

SweepFailedAfterReturn ==
    /\ last.op = "sweep"
    /\ ~last.listOk \/ last.delFailed # {}
    /\ call[last.id].pc = "done"

\* C27: when record creation fails, TriggerBackup returns the creation
\* error, the store holds no record for the attempt, the executor was not
\* invoked for it (no archive written) and no sweep was started.
CreateFailureStopsAttempt ==
    (last.op = "trigger" /\ ~last.created) =>
        /\ last.ret = ErrorRet("create backup record")
        /\ store[last.id] = NoRec
        /\ last.exec = "none" /\ last.write = "none"
        /\ sweep[last.id].pc = "none"
        /\ call[last.id] = DoneCall

CreateFailedReturned ==
    /\ last.op = "trigger"
    /\ ~last.created
    /\ last.ret.kind = "error"
    /\ \E i \in Ids \ {last.id} : store[i] # NoRec

\* a call of Hub.Broadcast by the producer
BroadcastCall == prod = "fetch" /\ nextMsg' = nextMsg + 1

HubReturnsWithNoViewers ==
    /\ [][(hub /\ ~hub') =>
             /\ sig
             /\ \A v \in clients : closed'[v]
             /\ clients' = {}]_vars
    /\ [](~hub => ClientCount = 0)
    /\ [][~hub =>
             /\ ~hub'
             /\ \A v \in Viewers : Len(sendq'[v]) <= Len(sendq[v])]_vars

ReturnedWithBroadcastPending ==
    /\ ~hub
    /\ bq # <<>>
    /\ \E v \in Viewers : closed[v] /\ view[v].st = "live"
    /\ \E w \in Viewers : view[w].st = "registering"

\* C31: two backup attempts have independent lifecycles: a record is created
\* under an id no attempt has used, the archive an attempt's executor writes
\* is a file of its own (no file that is already in the output directory),
\* and a step that completes, fails or deletes one attempt changes no other
\* attempt's record and removes no artifact.
AttemptsAreIndependent ==
    [][/\ \A i \in Ids : (store[i] = NoRec /\ store'[i] # NoRec) => call[i].pc = "idle"
       /\ (last'.op = "trigger" /\ last'.exec = "ok") => last'.path \notin files
       /\ ~SweepStep =>
             /\ \A i, j \in Ids :
                   (i # j /\ store'[i] # store[i]) => store'[j] = store[j]
             /\ files \subseteq files']_vars

\* C32: a retention sweep is started exactly once for each attempt whose
\* completed status write succeeded, in the step in which the attempt
\* returns, and none is started for an attempt whose executor failed, whose
\* final status write failed or whose record creation failed: a sweep
\* starts in no other step, and a sweep that exists is never started again.
SweepStartedOncePerCompleted ==
    [][/\ last'.op = "trigger" =>
             IF last'.created /\ last'.exec = "ok" /\ last'.write = "ok"
             THEN /\ sweep[last'.id].pc = "none"
                  /\ sweep'[last'.id].pc = "spawned"
                  /\ store[last'.id] # NoRec => store'[last'.id].status = "completed"
             ELSE sweep'[last'.id].pc = "none"
       /\ \A i \in Ids :
             /\ (sweep[i].pc = "none" /\ sweep'[i].pc # "none") =>
                   /\ last'.op = "trigger" /\ last'.id = i /\ last'.write = "ok"
                   /\ call[i].pc = "exec" /\ call'[i].pc = "done"
             /\ sweep[i].pc # "none" => sweep'[i].pc \notin {"none", "spawned"} \/ sweep'[i] = sweep[i]
             /\ \A j \in Ids \ {i} :
                   (sweep[i].pc = "none" /\ sweep'[i].pc # "none") => sweep'[j] = sweep[j]]_vars

\* C32 witness: an attempt returned the error of its status write with no
\* sweep started for it, while the sweep of a completed attempt exists
WriteFailedWithoutSweep ==
    /\ last.op = "trigger"
    /\ last.exec = "ok"
    /\ last.write = "fail"
    /\ sweep[last.id].pc = "none"
    /\ \E j \in Ids \ {last.id} :
          sweep[j].pc # "none" /\ store[j] # NoRec /\ store[j].status = "completed"

\* an iteration of sweep s that deletes the record it is at
SweepItemDeletes(s) ==
    /\ SweepItem(s, {})
    /\ store'[Head(sweep[s].todo).id] = NoRec
    /\ UNCHANGED <<schedVars, hubVars, main>>

ViewerGone(v) ==
    /\ v \notin clients
    /\ closed[v]
    /\ view[v].rp = "done"
    /\ view[v].wp = "done"

\* C34: while the hub's run loop is running, whenever a viewer's WritePump
\* has ended or its ReadPump has seen a transport error (each then submits
\* the unregistration), eventually the viewer is absent from the active set
\* with its queue closed and both pumps and the connection handler have
\* returned, unless the run loop has returned before that.
UnregistrationIsProcessed ==
    \A v \in Viewers :
        (hub /\ (view[v].wp = "unreg" \/ view[v].rp = "unreg"))
            ~> (ViewerGone(v) \/ ~hub)

\* C34 witness: with the run loop running and no signal, a viewer is gone
\* after both of its pumps submitted their unregistration
ViewerGoneWhileHubRuns ==
    \E v \in Viewers : hub /\ ~sig /\ ViewerGone(v)

\* a step in which the hub takes the unregistration submitted by a pump of v
UnregisterStep(v) ==
    \E pump \in Pumps : view[v][pump] = "unreg" /\ view'[v][pump] = "done"

\* C35: under every interleaving of the two unregistrations of a viewer,
\* overflow eviction and hub shutdown, a queue is closed only in a step that
\* takes its viewer out of the active set and a viewer in the set has an
\* open queue, so no queue is closed twice; the hub enqueues only onto open
\* queues of viewers in the set; and unregistering a viewer that is not in
\* the set changes neither the set nor any queue.
QueueClosedOnce ==
    /\ [](\A v \in clients : ~closed[v])
    /\ [][\A v \in Viewers :
             /\ (~closed[v] /\ closed'[v]) => (v \in clients /\ v \notin clients')
             /\ (v \in clients /\ v \notin clients') => (~closed[v] /\ closed'[v])
             /\ closed[v] => closed'[v]
             /\ Len(sendq'[v]) > Len(sendq[v]) =>
                   (v \in clients /\ ~closed[v] /\ ~closed'[v])
             /\ (UnregisterStep(v) /\ v \notin clients) =>
                   (clients' = clients /\ closed' = closed /\ sendq' = sendq /\ bq' = bq)]_vars

\* C35 witness: both pumps of a viewer had their unregistration taken (the
\* second found the viewer absent), and another viewer has been evicted
\* (its queue is closed while its pumps run and the hub is up)
UnregisteredTwiceAndEvicted ==
    \E v, w \in Viewers :
        /\ hub
        /\ ViewerGone(v)
        /\ closed[w] /\ view[w].rp = "run" /\ view[w].wp = "run"
        /\ Len(sendq[w]) = SendCap

FailedAddJobChangesNothing ==
    /\ [][\A p \in Procs :
             (adder[p].pc = "removed" /\ adder'[p].pc = "idle" /\ ~ParseOK(adder[p].expr)) =>
                (cron' = cron /\ jobs' = jobs)]_vars
    /\ [](mu = NoProc =>
             \A n \in Names :
                jobs[n] # NoEntry => \E e \in cron.entries : e.id = jobs[n] /\ e.name = n)

\* a sweep goroutine that has not ended
SweepActive(s) == sweep[s].pc \in {"spawned", "loop"}

\* C38: the sweep a scheduled backup starts is not an invocation the
\* handle of Stop() waits for: the job invocation has returned when its
\* sweep exists, so the sweep is never among the running invocations, and
\* once the scheduler is stopped and no job runs the handle can complete
\* whatever the sweeps are doing.
SweepOutsideHandle ==
    /\ \A s \in Ids : SweepActive(s) => s \notin running
    /\ (Alive /\ life.stopped /\ ~life.handleDone /\ running = {}) => ENABLED HandleStep

\* C38 witness: the handle has completed and run() has closed the sqlite
\* store while the sweep of a scheduled backup is in its loop over the
\* expired records
StoreClosedDuringSweep ==
    \E s \in Ids :
        /\ life.handleDone
        /\ main.sqliteClosed
        /\ sweep[s].pc = "loop"
        /\ store[s] # NoRec /\ store[s].trig = "scheduled"

\* C39: RestoreBackup does not look at the status: for every record that
\* exists (its lookup having answered), whatever its status and also with an
\* empty path, it invokes the restore tool with the record's path, the
\* record's database name and the --drop flag.
RestoreIgnoresStatus ==
    [][(last'.op = "restore" /\ GetByID(store, last'.id) # NoRec
            /\ last'.ret # ErrorRet("get backup")) =>
          LET b == GetByID(store, last'.id)
          IN  /\ last'.invoked
              /\ last'.ret \in {OkRet, ErrorRet("restore backup")}
              /\ last'.args = <<"--db", b.db, "--archive=", b.path, "--gzip", "--drop">>]_vars

\* C39 witness: the restore tool was invoked for a record that is still
\* running and has no artifact path
RestoredFromRunningRecord ==
    /\ last.op = "restore"
    /\ last.invoked
    /\ last.found # NoRec
    /\ last.found.status = "running"
    /\ last.path = NoPath
    /\ last.args[6] = "--drop"
====
